---------------------------- MODULE Spec2Model ----------------------------
(***************************************************************************)
(* A model of droidlet/memory/place_field.py (class PlaceField): the grid  *)
(* slices, the memid registry, the memid -> locations index and update_map.*)
(*                                                                         *)
(* Representation choices:                                                 *)
(*  - a numpy array v * np.ones((r, c)) is a record with its shape, the    *)
(*    value v it was filled with and the cells that differ from v;         *)
(*  - a world coordinate is an integer count of half units (x = xh / 2),   *)
(*    so that Python's round() has ties to break;                          *)
(*  - a decimal string str(n) is the sequence of its digits;               *)
(*  - Python's None is NoneKey for a slice key, NoPos for a position and   *)
(*    the empty string for a memid (both are falsy);                       *)
(*  - the dict examined is the sequence of its items in insertion order.   *)
(***************************************************************************)
EXTENDS Integers, Sequences, FiniteSets, TLC

MAX_MAP_SIZE == 4097
MAP_INIT_SIZE == 1025
BIG_I == MAX_MAP_SIZE
BIG_J == MAX_MAP_SIZE

\* Bounds of the model.
MaxTime == 1
MaxBatch == 2
MaxGrow == 2
MaxSlices == 2

SELF_MEMID == "self"
NoneKey == 0 - 1
NoPos == << >>

VARIABLES index2memid, memid2index, maps, map_size, pixels_per_unit,
          memid2locs, examined, examined_id, last, now, outcome

vars == << index2memid, memid2index, maps, map_size, pixels_per_unit,
           memid2locs, examined, examined_id, last, now, outcome >>

----------------------------------------------------------------------------
\* Generic helpers.

Max2(a, b) == IF a >= b THEN a ELSE b

EmptyFcn == [x \in {} |-> 0]

Restrict(f, S) == [x \in S |-> f[x]]

\* dict.get(k) truthiness / dict.pop(k, None) on a function used as a dict.
DictPop(d, k) == Restrict(d, DOMAIN d \ {k})

DictPut(d, k, v) == [x \in DOMAIN d \cup {k} |-> IF x = k THEN v ELSE d[x]]

\* An insertion-ordered dict {key: True} is the sequence of its keys.
KeysHas(ks, k) == \E n \in 1..Len(ks) : ks[n] = k

KeysAdd(ks, k) == IF KeysHas(ks, k) THEN ks ELSE Append(ks, k)

KeysPop(ks, k) == SelectSeq(ks, LAMBDA x : x # k)

\* str(n) and int(s) for n >= 0.
RECURSIVE Str(_)
Str(n) == IF n < 10 THEN << n >> ELSE Append(Str(n \div 10), n % 10)

RECURSIVE ParseInt(_)
ParseInt(s) == IF Len(s) = 0 THEN 0
               ELSE 10 * ParseInt(SubSeq(s, 1, Len(s) - 1)) + s[Len(s)]

\* Python integers have no width and a key h * BIG_I * BIG_J + ... passes
\* 2^31, so a key is computed in two halves, above and below 10^4.
\* The digits of hi * 10^4 + l4, for l4 < 10^4:
Digits(hi, l4) ==
    IF hi = 0 THEN Str(l4)
    ELSE Str(hi) \o << l4 \div 1000, (l4 \div 100) % 10, (l4 \div 10) % 10,
                       l4 % 10 >>

\* str(n * m + a) for 0 <= n and 0 <= a, m < 10^4:
MulAdd(n, m, a) ==
    Digits((n \div 10000) * m + ((n % 10000) * m + a) \div 10000,
           ((n % 10000) * m + a) % 10000)

\* (hi * 10^4 + lo) // m and (hi * 10^4 + lo) % m for 0 < m < 10^4:
DivModOf(hi, lo, m) ==
    [q |-> (hi \div m) * 10000 + ((hi % m) * 10000 + lo) \div m,
     r |-> ((hi % m) * 10000 + lo) % m]

\* int(ds) // m and int(ds) % m:
DivMod(ds, m) ==
    IF Len(ds) <= 4 THEN DivModOf(0, ParseInt(ds), m)
    ELSE DivModOf(ParseInt(SubSeq(ds, 1, Len(ds) - 4)),
                  ParseInt(SubSeq(ds, Len(ds) - 3, Len(ds))), m)

\* Python round() of num/2: ties go to the even neighbour.
Round(num) ==
    LET q == num \div 2
    IN  IF num % 2 = 0 THEN q
        ELSE IF q % 2 = 0 THEN q ELSE q + 1

----------------------------------------------------------------------------
\* numpy arrays.

Ones(v, r, c) == [rows |-> r, cols |-> c, fill |-> v, cells |-> EmptyFcn]

ArrGet(a, i, j) ==
    IF << i, j >> \in DOMAIN a.cells THEN a.cells[<< i, j >>] ELSE a.fill

ArrSet(a, i, j, v) ==
    [a EXCEPT !.cells =
        IF v = a.fill THEN DictPop(a.cells, << i, j >>)
        ELSE DictPut(a.cells, << i, j >>, v)]

\* The old array copied into the corner, new_map[0:w, 0:w] = old.
PadIntoCorner(old, v, new_w, e) ==
    [rows |-> new_w, cols |-> new_w, fill |-> v, cells |-> old.cells]

\* new_map = v * np.ones((new_w, new_w)); new_map[e:-e, e:-e] = old
PadInto(old, v, new_w, e) ==
    [rows |-> new_w, cols |-> new_w, fill |-> v,
     cells |-> [p \in { << q[1] + e, q[2] + e >> : q \in DOMAIN old.cells }
                  |-> old.cells[<< p[1] - e, p[2] - e >>]]]

ArrayNames == {"updated", "map", "memids"}

InitValue(m) == IF m = "updated" THEN 0 - 1 ELSE 0

----------------------------------------------------------------------------
\* The program state as one value, so that methods are operators on it.

State == [index2memid |-> index2memid, memid2index |-> memid2index,
          maps |-> maps, map_size |-> map_size,
          pixels_per_unit |-> pixels_per_unit, memid2locs |-> memid2locs]

\* ijh2idx with a multiplier one short of BIG_J.
ijh2idx_narrow(i, j, h) == MulAdd(h * BIG_I + i, BIG_J - 1, j)

\* str(h * BIG_I * BIG_J + i * BIG_J + j)
ijh2idx(i, j, h) == MulAdd(h * BIG_I + i, BIG_J, j)

\* i, j, h of idx2ijh from n.q = (idx - j) // BIG_J and n.r = idx % BIG_J.
Unpack(n) == << n.q % BIG_I, n.r, (n.q - (n.q % BIG_I)) \div BIG_I >>

idx2ijh(idx) == Unpack(DivMod(idx, BIG_J))

\* maybe_add_memid: the state after the call, and the index it returns.
maybe_add_memid_idx(st, memid) ==
    IF memid \in DOMAIN st.memid2index THEN st.memid2index[memid]
    ELSE Len(st.index2memid)

\* maybe_add_memid appending the memid whether it is known or not.
maybe_add_memid_always(st, memid) ==
    [st EXCEPT !.index2memid = Append(@, memid),
               !.memid2index = DictPut(@, memid, Len(st.index2memid))]

\* maybe_add_memid putting a new memid in front of the list.
maybe_add_memid_front(st, memid) ==
    IF memid \in DOMAIN st.memid2index THEN st
    ELSE [st EXCEPT !.index2memid = << memid >> \o @,
                    !.memid2index =
                        DictPut([x \in DOMAIN @ |-> @[x] + 1], memid, 0)]

maybe_add_memid(st, memid) ==
    IF memid \in DOMAIN st.memid2index THEN st
    ELSE [st EXCEPT !.index2memid = Append(@, memid),
                    !.memid2index = DictPut(@, memid, Len(st.index2memid))]

NewSlice == [m \in ArrayNames |-> Ones(InitValue(m), MAP_INIT_SIZE, MAP_INIT_SIZE)]

\* extend_map without the test of lines 243-244.
extend_map_unbounded(st, h0, extension) ==
    IF extension < 0 THEN [st |-> st, ret |-> 0, exc |-> "AssertionError"]
    ELSE
    LET h  == IF h0 \in {NoneKey, 0} /\ Cardinality(DOMAIN st.maps) = 1
              THEN CHOOSE k \in DOMAIN st.maps : TRUE ELSE h0
        m1 == IF h \notin DOMAIN st.maps THEN DictPut(st.maps, h, NewSlice)
              ELSE st.maps
        new_w == m1[h]["map"].rows + 2 * extension
    IN  IF extension = 0
        THEN [st |-> [st EXCEPT !.maps = m1], ret |-> 0, exc |-> "ValueError"]
        ELSE [st  |-> [st EXCEPT !.maps = DictPut(m1, h,
                          [m \in ArrayNames |->
                              PadInto(m1[h][m], InitValue(m), new_w, extension)])],
              ret |-> new_w, exc |-> "none"]

\* extend_map(h, extension): [st, ret, exc].
extend_map(st, h0, extension) ==
    IF extension < 0 THEN [st |-> st, ret |-> 0, exc |-> "AssertionError"]
    ELSE
    LET h  == IF h0 \in {NoneKey, 0} /\ Cardinality(DOMAIN st.maps) = 1
              THEN CHOOSE k \in DOMAIN st.maps : TRUE ELSE h0
        m1 == IF h \notin DOMAIN st.maps THEN DictPut(st.maps, h, NewSlice)
              ELSE st.maps
        w     == m1[h]["map"].rows
        new_w == w + 2 * extension
    IN  IF new_w > MAX_MAP_SIZE
        THEN [st |-> [st EXCEPT !.maps = m1], ret |-> 0 - 1, exc |-> "none"]
        ELSE IF extension = 0
        \* new_map[0:-0, 0:-0] is empty: the assignment cannot broadcast
        THEN [st |-> [st EXCEPT !.maps = m1], ret |-> 0, exc |-> "ValueError"]
        ELSE [st  |-> [st EXCEPT !.maps = DictPut(m1, h,
                          [m \in ArrayNames |->
                              PadInto(m1[h][m], InitValue(m), new_w, extension)])],
              ret |-> new_w, exc |-> "none"]

y2slice(y) == 0

\* real2map adding the upper half of n, (n + 1) // 2.
real2map_upper(st, x, z, h) ==
    LET n == st.maps[h]["map"].rows
    IN  << Round(x * st.pixels_per_unit + 2 * ((n + 1) \div 2)),
           Round(z * st.pixels_per_unit + 2 * ((n + 1) \div 2)) >>

real2map(st, x, z, h) ==
    LET n == st.maps[h]["map"].rows
    IN  << Round(x * st.pixels_per_unit + 2 * (n \div 2)),
           Round(z * st.pixels_per_unit + 2 * (n \div 2)) >>

\* map2real taking n // 2 off after the division by pixels_per_unit.
map2real_late(st, i, j, h) ==
    LET n == st.maps[h]["map"].rows
    IN  << (2 * i) \div st.pixels_per_unit - 2 * (n \div 2),
           (2 * j) \div st.pixels_per_unit - 2 * (n \div 2) >>

\* map2real(i, j, h): x and z in half units. i / pixels_per_unit is a true
\* division; its result is a whole number of half units for the values of
\* pixels_per_unit the model takes (1 and 2).
map2real(st, i, j, h) ==
    LET n == st.maps[h]["map"].rows
    IN  << (2 * (i - n \div 2)) \div st.pixels_per_unit,
           (2 * (j - n \div 2)) \div st.pixels_per_unit >>

----------------------------------------------------------------------------
\* Cell writes on slice h of the state.

SetCell(st, m, i, j, h, v) ==
    [st EXCEPT !.maps[h][m] = ArrSet(@, i, j, v)]

\* Lines 120-122 of delete_loc_by_memid.
ClearCell(st, i, j, h, t) ==
    SetCell(SetCell(SetCell(st, "memids", i, j, h, 0), "map", i, j, h, 0),
            "updated", i, j, h, t)

LocsOf(st, memid) ==
    IF memid \in DOMAIN st.memid2locs THEN st.memid2locs[memid] ELSE << >>

\* maybe_delete_loc without the test of line 98.
maybe_delete_loc_any(st, i, j, h, t, memid) ==
    LET idx  == ijh2idx(i, j, h)
        st1  == ClearCell(st, i, j, h, t)
        left == KeysPop(LocsOf(st, memid), idx)
    IN  IF Len(LocsOf(st, memid)) > 0
        THEN [st1 EXCEPT !.memid2locs =
                 IF Len(left) = 0 THEN DictPop(@, memid)
                 ELSE DictPut(@, memid, left)]
        ELSE st1

\* maybe_delete_loc(i, j, h, t, memid)
maybe_delete_loc(st, i, j, h, t, memid) ==
    LET current_memid == st.index2memid[ArrGet(st.maps[h]["memids"], i, j) + 1]
        idx  == ijh2idx(i, j, h)
        st1  == SetCell(SetCell(SetCell(st, "memids", i, j, h,
                                        st.memid2index["NULL"]),
                                "map", i, j, h, 0),
                        "updated", i, j, h, t)
        left == KeysPop(LocsOf(st, memid), idx)
    IN  IF memid = "NULL" \/ current_memid = memid
        THEN IF Len(LocsOf(st, memid)) > 0
             THEN [st1 EXCEPT !.memid2locs =
                      IF Len(left) = 0 THEN DictPop(@, memid)
                      ELSE DictPut(@, memid, left)]
             ELSE st1
        ELSE st

\* The loop of delete_loc_by_memid leaving after the first key.
DeleteLoopFirstOnly(st, keys, n, count, t, is_move) ==
    IF n > Len(keys) THEN [st |-> st, exc |-> "none"]
    ELSE LET ijh == idx2ijh(keys[n])
         IN  [st |-> ClearCell(st, ijh[1], ijh[2], ijh[3], t), exc |-> "none"]

\* The loop of delete_loc_by_memid over keys[n..], count cells cleared so far.
RECURSIVE DeleteLoop(_, _, _, _, _, _)
DeleteLoop(st, keys, n, count, t, is_move) ==
    IF n > Len(keys) THEN [st |-> st, exc |-> "none"]
    ELSE LET ijh == idx2ijh(keys[n])
             st1 == ClearCell(st, ijh[1], ijh[2], ijh[3], t)
         IN  IF is_move /\ count + 1 > 1
             THEN [st |-> st1, exc |-> "Exception"]
             ELSE DeleteLoop(st1, keys, n + 1, count + 1, t, is_move)

\* delete_loc_by_memid without the assertions of lines 115-116.
delete_loc_by_memid_unchecked(st, memid, t, is_move) ==
    LET r == DeleteLoop(st, LocsOf(st, memid), 1, 0, t, is_move)
    IN  IF r.exc # "none" THEN r
        ELSE [st |-> [r.st EXCEPT !.memid2locs = DictPop(@, memid)],
              exc |-> "none"]

\* delete_loc_by_memid(memid, t, is_move): [st, exc]
delete_loc_by_memid(st, memid, t, is_move) ==
    IF memid = "" \/ memid = "NULL"
    THEN [st |-> st, exc |-> "AssertionError"]
    ELSE LET r == DeleteLoop(st, LocsOf(st, memid), 1, 0, t, is_move)
         IN  IF r.exc # "none" THEN r
             ELSE [st |-> [r.st EXCEPT !.memid2locs = DictPop(@, memid)],
                   exc |-> "none"]

\* max(i - map_size + 1, j - map_size + 1, -i, -j)
Overshoot(st, ij) ==
    Max2(Max2(ij[1] - st.map_size + 1, ij[2] - st.map_size + 1),
         Max2(0 - ij[1], 0 - ij[2]))

\* Lines 183-193 without the update of memid2locs (lines 191-193).
InsertLocNoIndex(st, c, i, j, h, t) ==
    LET d   == IF c.is_move
               THEN IF c.memid = "NULL"
                    THEN [st |-> st, exc |-> "AssertionError"]
                    ELSE delete_loc_by_memid(st, c.memid, t, TRUE)
               ELSE [st |-> st, exc |-> "none"]
        idx == maybe_add_memid_idx(d.st, c.memid)
        st1 == maybe_add_memid(d.st, c.memid)
    IN  IF d.exc # "none" THEN d
        ELSE [st |-> SetCell(SetCell(SetCell(st1, "memids", i, j, h, idx),
                                     "map", i, j, h, c.is_obstacle),
                             "updated", i, j, h, t),
              exc |-> "none"]

\* The else branch of update_map's loop body at an in-bounds cell (i, j, h),
\* lines 183-193.
InsertLoc(st, c, i, j, h, t) ==
    LET d   == IF c.is_move
               THEN IF c.memid = "NULL"
                    THEN [st |-> st, exc |-> "AssertionError"]
                    ELSE delete_loc_by_memid(st, c.memid, t, TRUE)
               ELSE [st |-> st, exc |-> "none"]
        idx == maybe_add_memid_idx(d.st, c.memid)
        st1 == maybe_add_memid(d.st, c.memid)
        st2 == SetCell(SetCell(SetCell(st1, "memids", i, j, h, idx),
                               "map", i, j, h, c.is_obstacle),
                       "updated", i, j, h, t)
    IN  IF d.exc # "none" THEN d
        ELSE [st |-> [st2 EXCEPT !.memid2locs =
                         DictPut(@, c.memid,
                                 KeysAdd(LocsOf(st2, c.memid), ijh2idx(i, j, h)))],
              exc |-> "none"]

\* One iteration of update_map's loop: the state after record c, the exception
\* it raised, the extend_map calls it made, the overshoot s it first computed
\* and whether the continue of line 179 skipped it.
ApplyRecord(st, c, t) ==
    IF c.pos = NoPos
    THEN LET quiet == [calls |-> << >>, s |-> 0, skipped |-> FALSE]
         IN  IF ~c.is_delete
             THEN [st |-> st, exc |-> "AssertionError"] @@ quiet
             ELSE IF c.memid = ""
             THEN [st |-> st, exc |-> "Exception"] @@ quiet
             ELSE delete_loc_by_memid(st, c.memid, t, FALSE) @@ quiet
    ELSE LET h   == y2slice(c.pos[2])
             ij1 == real2map(st, c.pos[1], c.pos[3], h)
             s1  == Overshoot(st, ij1)
             \* self.extend_map(s): s is taken as h, extension defaults to 1
             e   == IF s1 > 0 THEN extend_map(st, s1, 1)
                    ELSE [st |-> st, ret |-> 0, exc |-> "none"]
             calls == IF s1 > 0
                      THEN << [h |-> s1, extension |-> 1, ret |-> e.ret] >>
                      ELSE << >>
             ij  == real2map(e.st, c.pos[1], c.pos[3], h)
             s2  == Overshoot(e.st, ij)
             obs == [calls |-> calls, s |-> s1, skipped |-> s2 > 0]
         IN  IF s2 > 0 THEN [st |-> e.st, exc |-> "none"] @@ obs
             ELSE IF c.is_delete
             THEN [st |-> maybe_delete_loc(e.st, ij[1], ij[2], h, t, c.memid),
                   exc |-> "none"] @@ obs
             ELSE InsertLoc(e.st, c, ij[1], ij[2], h, t) @@ obs

\* The loop of update_map catching the exception of a record and going on.
RECURSIVE UpdateLoopKeepsGoing(_, _, _, _)
UpdateLoopKeepsGoing(st, changes, n, t) ==
    LET r == ApplyRecord(st, changes[n], t)
    IN  IF n = Len(changes) THEN r @@ [reached |-> n]
        ELSE UpdateLoopKeepsGoing(r.st, changes, n + 1, t)

\* update_map(changes) from record n on: an exception leaves the loop and
\* the method. reached is the number of records whose processing began.
RECURSIVE UpdateLoop(_, _, _, _)
UpdateLoop(st, changes, n, t) ==
    LET r == ApplyRecord(st, changes[n], t)
    IN  IF r.exc # "none" \/ n = Len(changes)
        THEN r @@ [reached |-> n]
        ELSE UpdateLoop(r.st, changes, n + 1, t)

update_map(st, changes, t) == UpdateLoop(st, changes, 1, t)

----------------------------------------------------------------------------
\* Exploration: examined, examined_id and last. A point is a triple of half
\* units, so 1.5 is 3 and 1 is 2.

Exploration == [examined |-> examined, examined_id |-> examined_id,
                last |-> last]

Abs(a) == IF a >= 0 THEN a ELSE 0 - a

\* no_y_l1(self, xyz, k), in half units.
no_y_l1(self, xyz, k) == Abs(xyz[1] - k[1]) + Abs(xyz[3] - k[3])

\* A call no_y_l1(*args): fewer positional arguments than the three
\* parameters is a TypeError.
Call_no_y_l1(args) ==
    IF Len(args) # 3 THEN [ret |-> 0, exc |-> "TypeError"]
    ELSE [ret |-> no_y_l1(args[1], args[2], args[3]), exc |-> "none"]

\* The dict examined: items [k, v] in insertion order.
ExaminedHas(ex, k) == \E n \in 1..Len(ex) : ex[n].k = k

ExaminedGet(ex, k) == ex[CHOOSE n \in 1..Len(ex) : ex[n].k = k].v

ExaminedPut(ex, k, v) ==
    IF ExaminedHas(ex, k)
    THEN [n \in 1..Len(ex) |-> IF ex[n].k = k THEN [k |-> k, v |-> v] ELSE ex[n]]
    ELSE Append(ex, [k |-> k, v |-> v])

\* The loop of get_closest from item n on, with c and dist so far.
RECURSIVE ClosestLoop(_, _, _, _, _)
ClosestLoop(ex, n, xyz, c, dist) ==
    IF n > Len(ex) THEN [c |-> c, exc |-> "none"]
    ELSE LET d1 == Call_no_y_l1(<< ex[n].k, xyz >>)
             d2 == Call_no_y_l1(<< ex[n].k, xyz >>)
         IN  IF d1.exc # "none" THEN [c |-> c, exc |-> d1.exc]
             ELSE IF d1.ret < dist
             THEN IF d2.exc # "none" THEN [c |-> c, exc |-> d2.exc]
                  ELSE ClosestLoop(ex, n + 1, xyz, ex[n].k, d2.ret)
             ELSE ClosestLoop(ex, n + 1, xyz, c, dist)

\* get_closest without its loop (lines 255-258): c stays None.
get_closest_no_loop(e, xyz) ==
    [e |-> [e EXCEPT !.examined = ExaminedPut(@, xyz, 0)],
     ret |-> xyz, exc |-> "none"]

\* get_closest(xyz): [e, ret, exc], e being the exploration fields after it.
get_closest(e, xyz) ==
    LET r == ClosestLoop(e.examined, 1, xyz, NoPos, 3)
    IN  IF r.exc # "none" THEN [e |-> e, ret |-> NoPos, exc |-> r.exc]
        ELSE IF r.c = NoPos
        THEN [e |-> [e EXCEPT !.examined = ExaminedPut(@, xyz, 0)],
              ret |-> xyz, exc |-> "none"]
        ELSE [e |-> e, ret |-> r.c, exc |-> "none"]

\* update(target)
update(e, target) ==
    LET g == get_closest(e, target.xyz)
    IN  IF g.exc # "none" THEN [e |-> e, ret |-> NoPos, exc |-> g.exc]
        ELSE [e |-> [examined |->
                        ExaminedPut(g.e.examined, g.ret,
                                    ExaminedGet(g.e.examined, g.ret) + 1),
                     examined_id |-> g.e.examined_id \cup {target.eid},
                     last |-> g.ret],
              ret |-> NoPos, exc |-> "none"]

\* clear_examined() without line 273: last stays.
clear_examined_keeps_last(e) ==
    [e |-> [examined |-> << >>, examined_id |-> {}, last |-> e.last],
     ret |-> NoPos, exc |-> "none"]

\* clear_examined()
clear_examined(e) ==
    [e |-> [examined |-> << >>, examined_id |-> {}, last |-> NoPos],
     ret |-> NoPos, exc |-> "none"]

\* can_examine(x), x having the keys xyz, eid and label. With last set,
\* line 280 looks up self.l1, which PlaceField does not have.
can_examine(e, x) ==
    LET g == get_closest(e, x.xyz)
    IN  IF g.exc # "none" THEN [e |-> e, ret |-> FALSE, exc |-> g.exc]
        ELSE IF g.e.last # NoPos
        THEN [e |-> g.e, ret |-> FALSE, exc |-> "AttributeError"]
        ELSE [e |-> g.e, ret |-> ExaminedGet(g.e.examined, g.ret) < 2,
              exc |-> "none"]

----------------------------------------------------------------------------
\* The object after PlaceField.__init__(memory, pixels_per_unit).

Blank == [index2memid |-> << >>, memid2index |-> EmptyFcn, maps |-> EmptyFcn,
          map_size |-> 0, pixels_per_unit |-> 1, memid2locs |-> EmptyFcn]

Constructed ==
    LET e == extend_map(maybe_add_memid(maybe_add_memid(Blank, "NULL"),
                                        SELF_MEMID), 0, 1)
    IN  [e.st EXCEPT !.map_size = e.ret]

Idle == [op |-> "init", exc |-> "none", left |-> 0, kind |-> "none",
         skipped |-> FALSE, s |-> 0, calls |-> << >>, ret |-> 0]

\* The fields of a new object, at time 0.
Fresh ==
    /\ index2memid = Constructed.index2memid
    /\ memid2index = Constructed.memid2index
    /\ maps = Constructed.maps
    /\ map_size = Constructed.map_size
    /\ pixels_per_unit = Constructed.pixels_per_unit
    /\ memid2locs = Constructed.memid2locs
    /\ examined = << >>
    /\ examined_id = {}
    /\ last = NoPos
    /\ now = 0

Init == Fresh /\ outcome = Idle

\* The inputs: positions in half units. P1 and P2 are cells of the initial
\* slice, NearPos is one cell past its edge, FarPos needs a side above
\* MAX_MAP_SIZE.
P1 == << 0, 0, 0 >>
P2 == << 4, 0, 6 >>
NearPos == << MAP_INIT_SIZE + 3, 0, 0 >>
FarPos == << 2 * MAX_MAP_SIZE, 0, 0 >>

Rec(p, m, o, mv, d) ==
    [pos |-> p, memid |-> m, is_obstacle |-> o, is_move |-> mv, is_delete |-> d]

\* The records update_map is driven with.
Records ==
    { Rec(NoPos, m, 1, FALSE, TRUE) : m \in {"NULL", "a", ""} }
      \cup { Rec(NoPos, "a", 1, FALSE, FALSE) }
      \cup { Rec(p, m, 1, FALSE, TRUE) : p \in {P1, P2}, m \in {"NULL", "a"} }
      \cup { Rec(p, m, 1, mv, FALSE) : p \in {P1, P2}, m \in {"NULL", "a"},
                                       mv \in BOOLEAN }
      \cup { Rec(p, "a", 0, FALSE, FALSE) : p \in {P1, P2} }

\* A longer batch begins with one of HeadRecords (a record that fails its
\* assertion, one that names no memid, a move, an insert) and goes on with
\* SecondRecords.
HeadRecords ==
    { Rec(NoPos, "a", 1, FALSE, FALSE), Rec(NoPos, "", 1, FALSE, TRUE),
      Rec(P1, "a", 1, TRUE, FALSE), Rec(P1, "a", 1, FALSE, FALSE) }

SecondRecords == { Rec(P2, "a", 1, FALSE, FALSE) }

Singles(first) == { << r >> : r \in first }

Longer(heads, rest) ==
    UNION { { << r >> \o tl : r \in heads, tl \in [1..(n - 1) -> rest] }
            : n \in 2..MaxBatch }

Batches == Singles(Records) \cup Longer(HeadRecords, SecondRecords)

\* The model holds at most MaxSlices slices, stops growing a slice MaxGrow
\* steps above its initial side, and lets it be within MaxGrow steps of
\* MAX_MAP_SIZE.
SideWithinBound(w) ==
    \/ w <= MAP_INIT_SIZE + 2 * MaxGrow
    \/ w >= MAX_MAP_SIZE - 1 - 2 * MaxGrow

WithinBound(st) ==
    /\ Cardinality(DOMAIN st.maps) <= MaxSlices
    /\ \A h \in DOMAIN st.maps : SideWithinBound(st.maps[h]["map"].rows)

Become(st) ==
    /\ index2memid' = st.index2memid
    /\ memid2index' = st.memid2index
    /\ maps' = st.maps
    /\ map_size' = st.map_size
    /\ pixels_per_unit' = st.pixels_per_unit
    /\ memid2locs' = st.memid2locs

\* memory.get_time() moves on between calls.
Tick ==
    /\ now < MaxTime
    /\ now' = now + 1
    /\ UNCHANGED << index2memid, memid2index, maps, map_size, pixels_per_unit,
                    memid2locs, examined, examined_id, last, outcome >>

KindOf(c) ==
    IF c.pos = NoPos THEN "by_memid"
    ELSE IF c.is_delete THEN "delete"
    ELSE IF c.is_move THEN "move" ELSE "insert"

\* What can be observed of a call update_map(changes): the exception that
\* left it, the number of records it never began and, of the last record it
\* began, its kind and the fields ApplyRecord reports.
Observed(r, changes) ==
    [op |-> "update_map", exc |-> r.exc, left |-> Len(changes) - r.reached,
     kind |-> KindOf(changes[r.reached]), skipped |-> r.skipped,
     s |-> Max2(r.s, 0), calls |-> r.calls, ret |-> 0]

UpdateMapFrom(batches) ==
    \E changes \in batches :
        LET r == update_map(State, changes, now)
        IN  /\ WithinBound(r.st)
            /\ Become(r.st)
            /\ outcome' = Observed(r, changes)
            /\ UNCHANGED << examined, examined_id, last, now >>

UpdateMap == UpdateMapFrom(Batches)

\* Direct calls of extend_map, and update_map driven past the edge of the
\* slice.
GrowRecords ==
    { Rec(p, "a", 1, FALSE, FALSE) : p \in {P1, NearPos, FarPos} }
      \cup { Rec(NoPos, "a", 1, FALSE, TRUE) }

GrowBatches ==
    Singles(GrowRecords)
      \cup Longer({ Rec(FarPos, "a", 1, FALSE, FALSE) }, SecondRecords)

UpdateMapGrow == UpdateMapFrom(GrowBatches)

BigStep == (MAX_MAP_SIZE - MAP_INIT_SIZE) \div 2 - 1

Extensions == {0 - 1, 0, 1, BigStep}

SliceKeys == {NoneKey, 0}

ExtendMap ==
    \E h \in SliceKeys, extension \in Extensions :
        LET r == extend_map(State, h, extension)
        IN  /\ WithinBound(r.st)
            /\ Become(r.st)
            /\ outcome' = [Idle EXCEPT !.op = "extend_map", !.exc = r.exc,
                                       !.ret = r.ret]
            /\ UNCHANGED << examined, examined_id, last, now >>

\* Two identities on the same cells, and direct calls of maybe_add_memid.
IdRecords ==
    { Rec(p, m, 1, FALSE, FALSE) : p \in {P1, P2}, m \in {"a", "b"} }
      \cup { Rec(P1, m, 1, FALSE, TRUE) : m \in {"NULL", "a", "b"} }
      \cup { Rec(NoPos, m, 1, FALSE, TRUE) : m \in {"a", "b"} }

UpdateMapIds == UpdateMapFrom(Singles(IdRecords))

Tokens == {"NULL", SELF_MEMID, "a", "b", "c"}

MaybeAddMemid ==
    \E memid \in Tokens :
        /\ Become(maybe_add_memid(State, memid))
        /\ outcome' = [Idle EXCEPT !.op = "maybe_add_memid",
                                   !.ret = maybe_add_memid_idx(State, memid)]
        /\ UNCHANGED << examined, examined_id, last, now >>

Next == Tick \/ UpdateMap

Spec == Init /\ [][Next]_vars

\* The exploration methods. Origin's neighbours are at planar distance 1,
\* 0.5 (above it) and 1.5; FarPoint is away from all of them.
Origin == << 0, 0, 0 >>
HalfStep == << 1, 0, 1 >>
Above == << 1, 4, 0 >>
Edge == << 2, 0, 1 >>
FarPoint == << 20, 0, 20 >>

Points == {Origin, HalfStep, Above, Edge, FarPoint}

MaxEid == 2

Targets == [xyz : Points, eid : 1..MaxEid, label : {"chair"}]

\* The call op(arg) is this step; r is what the method gave. The boolean
\* can_examine returns is val, the point or None of the others is ret.
Called(op, arg, r) ==
    /\ examined' = r.e.examined
    /\ examined_id' = r.e.examined_id
    /\ last' = r.e.last
    /\ outcome' = IF op = "can_examine"
                  THEN [op |-> op, arg |-> arg, val |-> r.ret, exc |-> r.exc]
                  ELSE [op |-> op, arg |-> arg, ret |-> r.ret, exc |-> r.exc]
    /\ UNCHANGED << index2memid, memid2index, maps, map_size, pixels_per_unit,
                    memid2locs, now >>

GetClosest == \E xyz \in Points :
                  Called("get_closest", xyz, get_closest(Exploration, xyz))

Update == \E target \in Targets :
              Called("update", target.xyz, update(Exploration, target))

CanExamine == \E x \in Targets :
                  Called("can_examine", x.xyz, can_examine(Exploration, x))

\* clear_examined takes no argument: arg keeps the value of last it cleared.
ClearExamined == Called("clear_examined", last, clear_examined(Exploration))

NextExplore == GetClosest \/ Update \/ CanExamine \/ ClearExamined

SpecExplore == Init /\ [][NextExplore]_vars

\* ijh2idx and idx2ijh applied to triples of KeyValues.
KeyValues ==
    {0, 1, MAP_INIT_SIZE \div 2 + 1, MAX_MAP_SIZE \div 2, MAX_MAP_SIZE - 2,
     MAX_MAP_SIZE - 1}

Triples == KeyValues \X KeyValues \X KeyValues

InitKeys ==
    /\ Fresh
    /\ \E ijh \in Triples :
          outcome = [op |-> "ijh", ijh |-> ijh, idx |-> << >>, back |-> << >>]

Encode ==
    /\ outcome.op = "ijh"
    /\ outcome' = [outcome EXCEPT !.op = "ijh2idx",
                       !.idx = ijh2idx(outcome.ijh[1], outcome.ijh[2],
                                       outcome.ijh[3])]
    /\ UNCHANGED << index2memid, memid2index, maps, map_size, pixels_per_unit,
                    memid2locs, examined, examined_id, last, now >>

Decode ==
    /\ outcome.op = "ijh2idx"
    /\ outcome' = [outcome EXCEPT !.op = "idx2ijh", !.back = idx2ijh(outcome.idx)]
    /\ UNCHANGED << index2memid, memid2index, maps, map_size, pixels_per_unit,
                    memid2locs, examined, examined_id, last, now >>

NextKeys == Encode \/ Decode

SpecKeys == InitKeys /\ [][NextKeys]_vars

NextIds == UpdateMapIds \/ MaybeAddMemid

SpecIds == Init /\ [][NextIds]_vars

\* The clock plays no part in growing: SpecGrow runs at time 0.
NextGrow == UpdateMapGrow \/ ExtendMap

SpecGrow == Init /\ [][NextGrow]_vars

\* real2map and map2real on objects built with pixels_per_unit 1 or 2 whose
\* slice 0 has been grown by extend_map(0, e), applied to cells of the slice
\* and to world points.
CellSteps == {0, 1, 2, BigStep, BigStep + 1}

Scales == {1, 2}

Grown(e, ppu) ==
    [(IF e = 0 THEN Constructed ELSE extend_map(Constructed, 0, e).st)
        EXCEPT !.pixels_per_unit = ppu]

CellsOf(w) == {0, 1, w \div 2, w - 1} \X {0, 1, w \div 2, w - 1}

Halves == {0 - 3, 0, 1, 4, 6}

WorldPoints == Halves \X Halves

InitCells ==
    /\ \E e \in CellSteps, ppu \in Scales :
          /\ index2memid = Grown(e, ppu).index2memid
          /\ memid2index = Grown(e, ppu).memid2index
          /\ maps = Grown(e, ppu).maps
          /\ map_size = Grown(e, ppu).map_size
          /\ pixels_per_unit = Grown(e, ppu).pixels_per_unit
          /\ memid2locs = Grown(e, ppu).memid2locs
    /\ examined = << >>
    /\ examined_id = {}
    /\ last = NoPos
    /\ now = 0
    /\ \/ \E ij \in CellsOf(maps[0]["map"].rows) :
             outcome = [op |-> "cell", ij |-> ij, xz |-> << >>, back |-> << >>]
       \/ \E xz \in WorldPoints :
             outcome = [op |-> "point", ij |-> << >>, xz |-> xz, back |-> << >>]

Map2Real ==
    /\ outcome.op = "cell"
    /\ outcome' = [outcome EXCEPT !.op = "map2real",
                       !.xz = map2real(State, outcome.ij[1], outcome.ij[2], 0)]
    /\ UNCHANGED << index2memid, memid2index, maps, map_size, pixels_per_unit,
                    memid2locs, examined, examined_id, last, now >>

Real2Map ==
    /\ outcome.op \in {"map2real", "point"}
    /\ outcome' = [outcome EXCEPT
                       !.op = IF @ = "point" THEN "real2map" ELSE "round_trip",
                       !.back = real2map(State, outcome.xz[1], outcome.xz[2], 0)]
    /\ UNCHANGED << index2memid, memid2index, maps, map_size, pixels_per_unit,
                    memid2locs, examined, examined_id, last, now >>

NextCells == Map2Real \/ Real2Map

SpecCells == InitCells /\ [][NextCells]_vars

----------------------------------------------------------------------------
\* Vocabulary of the properties.

Side(st, h) == st.maps[h]["map"].rows

CellOf(st, pos) == real2map(st, pos[1], pos[3], y2slice(pos[2]))

InBounds(st, pos) == Overshoot(st, CellOf(st, pos)) <= 0

KeyOf(st, pos) ==
    ijh2idx(CellOf(st, pos)[1], CellOf(st, pos)[2], y2slice(pos[2]))

OwnerAt(st, i, j, h) == st.index2memid[ArrGet(st.maps[h]["memids"], i, j) + 1]

Occupancy(st, i, j, h) == ArrGet(st.maps[h]["map"], i, j)

LastUpdate(st, i, j, h) == ArrGet(st.maps[h]["updated"], i, j)

\* The cells << i, j, h >> whose owner is memid X (X is not the sentinel).
OwnedCells(st, X) ==
    UNION { { << q[1], q[2], h >> :
                q \in { p \in DOMAIN st.maps[h]["memids"].cells :
                          OwnerAt(st, p[1], p[2], h) = X } }
            : h \in DOMAIN st.maps }

\* This step is the call update_map([c]).
StepOf(c) ==
    LET r == update_map(State, << c >>, now)
    IN  /\ State' = r.st
        /\ outcome' = Observed(r, << c >>)
        /\ now' = now

----------------------------------------------------------------------------
\* C1: every cell owned by an identity X other than "NULL" has its key in
\* memid2locs[X], and every key of memid2locs[X] decodes to a cell whose
\* owner is X.
C1_OwnerAgreesWithIndex ==
    /\ \A X \in DOMAIN memid2index \ {"NULL"} :
          \A c \in OwnedCells(State, X) :
              KeysHas(LocsOf(State, X), ijh2idx(c[1], c[2], c[3]))
    /\ \A X \in DOMAIN memid2locs \ {"NULL"} :
          \A n \in 1..Len(memid2locs[X]) :
              LET c == idx2ijh(memid2locs[X][n])
              IN  /\ c[3] \in DOMAIN maps
                  /\ OwnerAt(State, c[1], c[2], c[3]) = X

MoveChecks == { Rec(p, "a", 1, TRUE, FALSE) : p \in {P1, P2} }

\* C2: a move of an identity that owns exactly one cell, to another cell, is
\* accepted and leaves the identity owning exactly the target cell, occupied,
\* the original cell unoccupied with the sentinel owner, and one entry in
\* memid2locs[identity].
C2_MoveKeepsOneCell ==
    [][ \A c \in MoveChecks : \A from \in OwnedCells(State, c.memid) :
          LET ij == CellOf(State, c.pos)
              to == << ij[1], ij[2], y2slice(c.pos[2]) >>
          IN  ( /\ StepOf(c)
                /\ InBounds(State, c.pos)
                /\ OwnedCells(State, c.memid) = {from}
                /\ from # to )
              => ( /\ outcome'.exc = "none"
                   /\ OwnedCells(State', c.memid) = {to}
                   /\ Occupancy(State', to[1], to[2], to[3]) = 1
                   /\ Occupancy(State', from[1], from[2], from[3]) = 0
                   /\ OwnerAt(State', from[1], from[2], from[3]) = "NULL"
                   /\ Len(LocsOf(State', c.memid)) = 1 ) ]_vars

\* C3: a move of an identity that owns no cell, or more than one cell, fails
\* with an error.
C3_MoveNeedsExactlyOne ==
    [][ \A c \in MoveChecks :
          ( /\ StepOf(c)
            /\ InBounds(State, c.pos)
            /\ Cardinality(OwnedCells(State, c.memid)) # 1 )
          => outcome'.exc # "none" ]_vars

\* The records 1..k of a batch applied one after the other, as separate
\* calls would apply them.
RECURSIVE RunTo(_, _, _, _)
RunTo(st, changes, k, t) ==
    IF k = 0 THEN [st |-> st, exc |-> "none"]
    ELSE ApplyRecord(RunTo(st, changes, k - 1, t).st, changes[k], t)

\* C4 as claimed: when a record of a batch fails, the later records of the
\* batch are still processed, so update_map begins every record it is given.
C4_BatchGoesOn == outcome.op = "update_map" => outcome.left = 0

\* C4 amended: when record k of a batch is the first to fail, its exception
\* leaves update_map: the call raises it, the state is the one records 1..k
\* left and no record after k is begun.
C4_ErrorEndsTheBatch ==
    \A changes \in Batches : \A k \in 1..Len(changes) :
        LET r == update_map(State, changes, now)
        IN  ( /\ \A j \in 1..(k - 1) : RunTo(State, changes, j, now).exc = "none"
              /\ RunTo(State, changes, k, now).exc # "none" )
            => ( /\ r.exc = RunTo(State, changes, k, now).exc
                 /\ r.st = RunTo(State, changes, k, now).st
                 /\ r.reached = k )

C4_Witness ==
    /\ outcome.op = "update_map"
    /\ outcome.exc # "none"
    /\ outcome.left > 0
    /\ OwnedCells(State, "a") # {}

\* C5: a record whose cell lies s > 0 cells outside its slice, with a growth by
\* s within MAX_MAP_SIZE, makes update_map call extend_map once, on the
\* record's slice with extension s, and the record is then applied.
C5_GrowsToCover ==
    ( /\ outcome.op = "update_map"
      /\ outcome.s > 0
      /\ map_size + 2 * outcome.s <= MAX_MAP_SIZE )
    => ( /\ Len(outcome.calls) = 1
         /\ outcome.calls[1].h = 0
         /\ outcome.calls[1].extension = outcome.s
         /\ ~outcome.skipped )

\* The cell of pos lies outside the slice and a growth that covers it would
\* exceed MAX_MAP_SIZE.
Beyond(st, pos) ==
    LET s == Overshoot(st, CellOf(st, pos))
    IN  s > 0 /\ Side(st, y2slice(pos[2])) + 2 * s > MAX_MAP_SIZE

\* C6: a record that would need a side above MAX_MAP_SIZE is skipped without
\* an exception and changes neither the slices nor memid2locs.
C6_FarRecordChangesNothing ==
    [][ \A c \in GrowRecords :
          ( /\ c.pos # NoPos
            /\ StepOf(c)
            /\ Beyond(State, c.pos) )
          => ( /\ outcome'.exc = "none"
               /\ outcome'.skipped
               /\ maps' = maps
               /\ memid2locs' = memid2locs ) ]_vars

SquareBounded ==
    \A h \in DOMAIN maps : \A m \in ArrayNames :
        /\ maps[h][m].rows = maps[h][m].cols
        /\ maps[h][m].rows = Side(State, h)
        /\ maps[h][m].rows <= MAX_MAP_SIZE

NeverShrinks ==
    \A h \in DOMAIN maps : h \in DOMAIN maps' /\ Side(State', h) >= Side(State, h)

\* C7: the three arrays of every slice are square with one side length, which
\* never exceeds MAX_MAP_SIZE and never decreases.
C7_SquareGrowingBounded == []SquareBounded /\ [][NeverShrinks]_vars

C7_Witness ==
    /\ outcome.op = "extend_map"
    /\ outcome.ret = 0 - 1
    /\ \E h \in DOMAIN maps : Side(State, h) = MAX_MAP_SIZE
    /\ \E h \in DOMAIN maps : Side(State, h) = MAP_INIT_SIZE + 4

PHalf == << 1, 0, 3 >>

InsertChecks ==
    { Rec(p, m, o, FALSE, FALSE) :
        p \in {P1, P2, PHalf}, m \in {"NULL", "a", "b"}, o \in {0, 1} }

\* C8: an insert record at an in-bounds position leaves its cell with the
\* record's is_obstacle, an owner index that index2memid resolves to the
\* record's memid, last update now, and the cell's key in memid2locs[memid].
C8_InsertSetsCell ==
    \A c \in InsertChecks :
        LET r  == ApplyRecord(State, c, now)
            ij == CellOf(State, c.pos)
            h  == y2slice(c.pos[2])
        IN  InBounds(State, c.pos)
            => ( /\ r.exc = "none"
                 /\ ~r.skipped
                 /\ Occupancy(r.st, ij[1], ij[2], h) = c.is_obstacle
                 /\ OwnerAt(r.st, ij[1], ij[2], h) = c.memid
                 /\ LastUpdate(r.st, ij[1], ij[2], h) = now
                 /\ KeysHas(LocsOf(r.st, c.memid), ijh2idx(ij[1], ij[2], h)) )

C8_Witness ==
    LET ij == CellOf(State, P2)
    IN  /\ outcome.kind = "insert"
        /\ outcome.exc = "none"
        /\ now = 1
        /\ OwnerAt(State, ij[1], ij[2], 0) = "a"
        /\ Occupancy(State, ij[1], ij[2], 0) = 0
        /\ LastUpdate(State, ij[1], ij[2], 0) = now
        /\ KeysHas(LocsOf(State, "a"), KeyOf(State, P2))

\* C9: a delete by identity X leaves no cell owned by X, every cell X owned
\* unoccupied with the sentinel owner, and no entry for X in memid2locs.
C9_DeleteByMemidClearsAll ==
    \A X \in {"a", "b", SELF_MEMID} :
        LET r == ApplyRecord(State, Rec(NoPos, X, 1, FALSE, TRUE), now)
        IN  /\ r.exc = "none"
            /\ OwnedCells(r.st, X) = {}
            /\ \A c \in OwnedCells(State, X) :
                  /\ Occupancy(r.st, c[1], c[2], c[3]) = 0
                  /\ OwnerAt(r.st, c[1], c[2], c[3]) = "NULL"
            /\ X \notin DOMAIN r.st.memid2locs

C9_Witness ==
    /\ outcome.kind = "by_memid"
    /\ outcome.exc = "none"
    /\ now = 1
    /\ "a" \in DOMAIN memid2index
    /\ "a" \notin DOMAIN memid2locs
    /\ OwnedCells(State, "a") = {}
    /\ \A p \in {P1, P2} :
          /\ LastUpdate(State, CellOf(State, p)[1], CellOf(State, p)[2], 0) = now
          /\ Occupancy(State, CellOf(State, p)[1], CellOf(State, p)[2], 0) = 0

BadChecks ==
    { Rec(NoPos, m, 1, mv, FALSE) : m \in {"", "NULL", "a"}, mv \in BOOLEAN }
      \cup { Rec(NoPos, m, 1, mv, TRUE) : m \in {"", "NULL"}, mv \in BOOLEAN }

\* C10: a record without a position that is no delete, or names no identity
\* or "NULL", raises an exception and leaves the slices, the registry and
\* memid2locs as they were.
C10_BadRecordFailsCleanly ==
    \A c \in BadChecks :
        LET r == ApplyRecord(State, c, now)
        IN  r.exc # "none" /\ r.st = State

C10_Witness ==
    /\ outcome.kind = "by_memid"
    /\ outcome.exc # "none"
    /\ OwnedCells(State, "a") # {}
    /\ "NULL" \in DOMAIN memid2locs

DeleteChecks ==
    { Rec(p, m, 1, FALSE, TRUE) :
        p \in {P1, P2, PHalf}, m \in {"a", "b", SELF_MEMID} }

\* C11: a positional delete that names identity X, at a cell whose owner is
\* not X, does not clear the cell: its occupancy and owner stay and so does
\* the memid2locs entry of the cell's owner.
C11_ForeignDeleteKeepsCell ==
    \A c \in DeleteChecks :
        LET r     == ApplyRecord(State, c, now)
            ij    == CellOf(State, c.pos)
            h     == y2slice(c.pos[2])
            owner == OwnerAt(State, ij[1], ij[2], h)
        IN  ( InBounds(State, c.pos) /\ owner # c.memid )
            => ( /\ r.exc = "none"
                 /\ Occupancy(r.st, ij[1], ij[2], h)
                      = Occupancy(State, ij[1], ij[2], h)
                 /\ OwnerAt(r.st, ij[1], ij[2], h) = owner
                 /\ LocsOf(r.st, owner) = LocsOf(State, owner) )

\* A positional delete was the last record, both cells are still occupied and
\* owned by the sentinel: the delete named "a" and left its cell alone.
C11_Witness ==
    /\ outcome.kind = "delete"
    /\ outcome.exc = "none"
    /\ "a" \in DOMAIN memid2index
    /\ \A p \in {P1, P2} :
          /\ Occupancy(State, CellOf(State, p)[1], CellOf(State, p)[2], 0) = 1
          /\ OwnerAt(State, CellOf(State, p)[1], CellOf(State, p)[2], 0) = "NULL"

PosDeletes == { Rec(p, m, 1, FALSE, TRUE) : p \in {P1, P2}, m \in {"NULL", "a"} }

\* C12: a positional delete that names no identity, or names the owner of
\* the cell, leaves the cell unoccupied, owned by the sentinel, last updated
\* now, and its key in no entry of memid2locs.
C12_DeleteClearsCell ==
    [][ \A c \in PosDeletes :
          LET ij == CellOf(State, c.pos)
              h  == y2slice(c.pos[2])
          IN  ( /\ StepOf(c)
                /\ InBounds(State, c.pos)
                /\ ( c.memid = "NULL" \/ OwnerAt(State, ij[1], ij[2], h) = c.memid ) )
              => ( /\ outcome'.exc = "none"
                   /\ Occupancy(State', ij[1], ij[2], h) = 0
                   /\ OwnerAt(State', ij[1], ij[2], h) = "NULL"
                   /\ LastUpdate(State', ij[1], ij[2], h) = now
                   /\ \A X \in DOMAIN memid2locs' :
                         ~KeysHas(memid2locs'[X], KeyOf(State, c.pos)) ) ]_vars

\* C13: no cell key is in the memid2locs sets of two different identities
\* (the sentinel "NULL" is not counted as one).
C13_OneOwnerPerKey ==
    \A X \in DOMAIN memid2locs \ {"NULL"} :
        \A Y \in DOMAIN memid2locs \ {"NULL", X} :
            \A n \in 1..Len(memid2locs[X]) :
                ~KeysHas(memid2locs[Y], memid2locs[X][n])

\* C14: maybe_add_memid of a known token returns its index and changes
\* nothing; of a new token it returns the next unused index; a second call
\* returns the same index; the indices are exactly 0..N-1 and index2memid
\* inverts memid2index.
C14_RegisterIdempotent ==
    /\ \A t \in Tokens :
          LET idx == maybe_add_memid_idx(State, t)
              st1 == maybe_add_memid(State, t)
          IN  /\ t \in DOMAIN memid2index
                    => ( idx = memid2index[t] /\ st1 = State )
              /\ t \notin DOMAIN memid2index
                    => ( /\ idx = Len(index2memid)
                         /\ Len(st1.index2memid) = Len(index2memid) + 1 )
              /\ st1.memid2index[t] = idx
              /\ maybe_add_memid_idx(st1, t) = idx
              /\ maybe_add_memid(st1, t) = st1
    /\ { memid2index[t] : t \in DOMAIN memid2index } = 0..(Len(index2memid) - 1)
    /\ \A t \in DOMAIN memid2index : index2memid[memid2index[t] + 1] = t

C14_Witness ==
    /\ outcome.op = "maybe_add_memid"
    /\ Len(index2memid) = Cardinality(Tokens)
    /\ outcome.ret = memid2index["a"]
    /\ memid2index["a"] < memid2index["c"]

Reserved ==
    /\ index2memid[1] = "NULL" /\ memid2index["NULL"] = 0
    /\ index2memid[2] = SELF_MEMID /\ memid2index[SELF_MEMID] = 1

IndicesStay ==
    /\ \A t \in DOMAIN memid2index :
          t \in DOMAIN memid2index' /\ memid2index'[t] = memid2index[t]
    /\ \A n \in 1..Len(index2memid) :
          n <= Len(index2memid') /\ index2memid'[n] = index2memid[n]

\* C15: index 0 is "NULL" and index 1 the self memid; a token keeps its
\* index, which is never given to another token nor removed.
C15_RegistryAppendOnly == []Reserved /\ [][IndicesStay]_vars

\* "b" was registered first, others after it, and its cells were deleted.
C15_Witness ==
    /\ Len(index2memid) = Cardinality(Tokens)
    /\ memid2index["b"] = Cardinality({"NULL", SELF_MEMID})
    /\ outcome.kind = "by_memid"
    /\ "b" \notin DOMAIN memid2locs
    /\ "a" \in DOMAIN memid2locs

\* C16: for i, j, h in 0..MAX_MAP_SIZE-1, idx2ijh(ijh2idx(i, j, h)) is
\* (i, j, h), and no other triple of the range has the same key.
C16_KeyRoundTrip ==
    /\ outcome.op = "idx2ijh" => outcome.back = outcome.ijh
    /\ outcome.op \in {"ijh2idx", "idx2ijh"}
          => \A t \in Triples \ {outcome.ijh} :
                ijh2idx(t[1], t[2], t[3]) # outcome.idx

C16_Witness ==
    /\ outcome.op = "idx2ijh"
    /\ outcome.ijh = << MAX_MAP_SIZE - 1, MAX_MAP_SIZE - 1, MAX_MAP_SIZE - 1 >>
    /\ outcome.idx = << 6, 8, 7, 6, 9, 8, 2, 0, 6, 7, 2 >>
    /\ outcome.back = outcome.ijh

ExploreOps == {"get_closest", "update", "can_examine", "clear_examined"}

\* C17: no call of get_closest, update, can_examine or clear_examined raises
\* an exception.
C17_NoCallRaises == outcome.op \in ExploreOps => outcome.exc = "none"

\* The examined points at planar distance below 1.5 of xyz, the closest of
\* them, and the point get_closest is to return for xyz.
Within(ex, xyz) ==
    { ex[n].k : n \in { m \in 1..Len(ex) : no_y_l1(NoPos, ex[m].k, xyz) < 3 } }

Closest(ex, xyz) ==
    { k \in Within(ex, xyz) :
        \A q \in Within(ex, xyz) :
            no_y_l1(NoPos, k, xyz) <= no_y_l1(NoPos, q, xyz) }

KOf(ex, xyz) == IF Within(ex, xyz) = {} THEN {xyz} ELSE Closest(ex, xyz)

\* C18: can_examine(x) returns false whenever last is set and the planar
\* distance between last and k = get_closest(x.xyz) is below 1, whatever the
\* visit count of k.
C18_CloseToLastIsRefused ==
    [][ \A x \in Targets : \A k \in KOf(examined, x.xyz) :
          ( /\ outcome'.op = "can_examine"
            /\ Called("can_examine", x.xyz, can_examine(Exploration, x))
            /\ last # NoPos
            /\ no_y_l1(NoPos, last, k) < 2 )
          => ( outcome'.exc = "none" /\ outcome'.val = FALSE ) ]_vars

\* C19: an update that matches an examined point k visited once makes its
\* visit count 2, and can_examine on a point whose k has visit count 2
\* returns false.
C19_SecondVisitCloses ==
    [][ /\ \A t \in Targets : \A k \in KOf(examined, t.xyz) :
              ( /\ outcome'.op = "update"
                /\ Called("update", t.xyz, update(Exploration, t))
                /\ ExaminedHas(examined, k)
                /\ ExaminedGet(examined, k) = 1 )
              => ( outcome'.exc = "none" /\ ExaminedGet(examined', k) = 2 )
        /\ \A x \in Targets : \A k \in KOf(examined, x.xyz) :
              ( /\ outcome'.op = "can_examine"
                /\ Called("can_examine", x.xyz, can_examine(Exploration, x))
                /\ ExaminedHas(examined, k)
                /\ ExaminedGet(examined, k) >= 2 )
              => ( outcome'.exc = "none" /\ outcome'.val = FALSE ) ]_vars

\* C20: get_closest(xyz) returns the examined point closest to xyz among
\* those at planar distance below 1.5 and leaves examined alone; with no
\* such point it adds xyz to examined with count 0 and returns it.
C20_ClosestOrNew ==
    [][ \A xyz \in Points :
          ( /\ outcome'.op = "get_closest"
            /\ Called("get_closest", xyz, get_closest(Exploration, xyz)) )
          => ( /\ outcome'.exc = "none"
               /\ IF Within(examined, xyz) # {}
                  THEN /\ outcome'.ret \in Closest(examined, xyz)
                       /\ examined' = examined
                  ELSE /\ outcome'.ret = xyz
                       /\ examined' = Append(examined, [k |-> xyz, v |-> 0]) ) ]_vars

\* C21: update(target) sets last to get_closest(target.xyz), adds target.eid
\* to examined_id and raises the count of that one examined point by exactly
\* 1; the count of every other examined point stays.
C21_UpdateCountsOne ==
    [][ \A t \in Targets : \A k \in KOf(examined, t.xyz) :
          ( /\ outcome'.op = "update"
            /\ Called("update", t.xyz, update(Exploration, t)) )
          => ( /\ outcome'.exc = "none"
               /\ last' = k
               /\ examined_id' = examined_id \cup {t.eid}
               /\ ExaminedHas(examined', k)
               /\ ExaminedGet(examined', k)
                     = (IF ExaminedHas(examined, k)
                        THEN ExaminedGet(examined, k) ELSE 0) + 1
               /\ \A n \in 1..Len(examined) :
                     examined[n].k # k
                       => /\ ExaminedHas(examined', examined[n].k)
                          /\ ExaminedGet(examined', examined[n].k)
                                = examined[n].v ) ]_vars

\* The exploration fields of a new object.
FreshExploration == [examined |-> << >>, examined_id |-> {}, last |-> NoPos]

\* C22: clear_examined leaves examined, examined_id and last as those of a
\* new object, so that every later call gives what it gives on a new object,
\* and leaves maps, index2memid, memid2index and memid2locs alone.
C22_ClearGivesFreshExploration ==
    [][ ( /\ outcome'.op = "clear_examined"
          /\ Called("clear_examined", last, clear_examined(Exploration)) )
        => ( /\ outcome'.exc = "none"
             /\ Exploration' = FreshExploration
             /\ \A p \in Points :
                   get_closest(Exploration', p)
                     = get_closest(FreshExploration, p)
             /\ \A x \in Targets :
                   /\ update(Exploration', x) = update(FreshExploration, x)
                   /\ can_examine(Exploration', x)
                        = can_examine(FreshExploration, x)
             /\ UNCHANGED << maps, index2memid, memid2index, memid2locs,
                             map_size, pixels_per_unit >> ) ]_vars

\* clear_examined has been called on an object whose last was set (by an
\* update, which also left an examined point and a visited id).
C22_Witness ==
    /\ outcome.op = "clear_examined"
    /\ outcome.exc = "none"
    /\ outcome.arg # NoPos
    /\ Exploration = FreshExploration
    /\ State = Constructed

\* C23: map2real is the inverse of real2map on cells: for every cell (i, j)
\* of a slice, at every side the slice has, real2map(map2real(i, j, h), h)
\* is (i, j).
C23_CellRoundTrip == outcome.op = "round_trip" => outcome.back = outcome.ij

\* The corner cell of a slice of side MAX_MAP_SIZE, at 2 pixels per unit, has
\* gone to the world and back.
C23_Witness ==
    /\ outcome.op = "round_trip"
    /\ maps[0]["map"].rows = MAX_MAP_SIZE
    /\ pixels_per_unit = 2
    /\ outcome.ij = << MAX_MAP_SIZE - 1, 0 >>
    /\ outcome.xz = << MAX_MAP_SIZE \div 2, 0 - (MAX_MAP_SIZE \div 2) >>
    /\ outcome.back = outcome.ij

\* i is round(v / 2): the integer nearest to v / 2 and, of two equally near,
\* the even one.
IsRoundOf(i, v) ==
    /\ Abs(2 * i - v) <= 1
    /\ Abs(2 * i - v) = 1 => i % 2 = 0

\* C24, as stated: real2map(x, z, h) is (round(x * pixels_per_unit + size/2),
\* round(z * pixels_per_unit + size/2)), size/2 being half the side.
C24_RoundOfHalfSide ==
    outcome.op = "real2map"
      => /\ IsRoundOf(outcome.back[1],
                      outcome.xz[1] * pixels_per_unit + maps[0]["map"].rows)
         /\ IsRoundOf(outcome.back[2],
                      outcome.xz[2] * pixels_per_unit + maps[0]["map"].rows)

\* C24, amended: real2map(x, z, h) is (round(x * pixels_per_unit + size // 2),
\* round(z * pixels_per_unit + size // 2)), size // 2 being the integer part
\* of half the side; at 1 pixel per unit the point (2.0, 0.0, 3.0) is the
\* cell (size // 2 + 2, size // 2 + 3).
C24_RoundOfIntegerHalfSide ==
    outcome.op = "real2map"
      => /\ IsRoundOf(outcome.back[1],
                      outcome.xz[1] * pixels_per_unit
                        + 2 * (maps[0]["map"].rows \div 2))
         /\ IsRoundOf(outcome.back[2],
                      outcome.xz[2] * pixels_per_unit
                        + 2 * (maps[0]["map"].rows \div 2))
         /\ (pixels_per_unit = 1 /\ outcome.xz = << 4, 6 >>)
              => outcome.back = << maps[0]["map"].rows \div 2 + 2,
                                   maps[0]["map"].rows \div 2 + 3 >>

\* The point (2.0, 0.0, 3.0) on the slice of a new object, side 1027, is the
\* cell (515, 516).
C24_Witness ==
    /\ outcome.op = "real2map"
    /\ pixels_per_unit = 1
    /\ maps[0]["map"].rows = MAP_INIT_SIZE + 2
    /\ outcome.xz = << 4, 6 >>
    /\ outcome.back = << 515, 516 >>

\* Every cell of the slice sl, of side w, is unoccupied, owned by index 0 and
\* has last update -1.
BlankSlice(sl, w) ==
    \A m \in ArrayNames :
        /\ sl[m].rows = w
        /\ sl[m].cols = w
        /\ sl[m].fill = InitValue(m)
        /\ sl[m].cells = EmptyFcn

\* C25: a slice created on first reference, slice 0 of a new object
\* included, has side MAP_INIT_SIZE, every cell unoccupied, owned by index 0
\* and with last update -1.
C25_NewSliceHasInitSize ==
    /\ [](outcome.op = "init" => BlankSlice(maps[0], MAP_INIT_SIZE))
    /\ [][ \A h \in DOMAIN maps' \ DOMAIN maps :
              BlankSlice(maps'[h], MAP_INIT_SIZE) ]_vars

\* The key extend_map(h0, ...) works on (lines 235-236).
SliceKeyOf(st, h0) ==
    IF h0 \in {NoneKey, 0} /\ Cardinality(DOMAIN st.maps) = 1
    THEN CHOOSE k \in DOMAIN st.maps : TRUE ELSE h0

\* new is old with e blank cells added on every side.
PaddedBy(new, old, m, e) ==
    /\ new.rows = old.rows + 2 * e
    /\ new.cols = old.cols + 2 * e
    /\ \A q \in DOMAIN old.cells :
          ArrGet(new, q[1] + e, q[2] + e) = old.cells[q]
    /\ \A q \in DOMAIN new.cells \cup
                { << 0, 0 >>, << e - 1, e - 1 >>, << old.rows + e, e >>,
                  << new.rows - 1, new.cols - 1 >> } :
          (q[1] < e \/ q[2] < e \/ q[1] >= old.rows + e \/ q[2] >= old.cols + e)
            => ArrGet(new, q[1], q[2]) = InitValue(m)
    /\ \A q \in DOMAIN new.cells \cup { << e, e >>, << old.rows + e - 1, e >> } :
          (q[1] >= e /\ q[2] >= e /\ q[1] < old.rows + e /\ q[2] < old.cols + e)
            => ArrGet(new, q[1], q[2]) = ArrGet(old, q[1] - e, q[2] - e)

\* C26: extend_map(h, e) on a slice of side w that returns a side makes the
\* slice one of side w + 2e with new[i+e][j+e] = old[i][j] in the three
\* arrays and blank cells on the added border; with w + 2e above
\* MAX_MAP_SIZE it returns -1 and the three arrays of the slice stay.
C26_ExtendPadsOrRejects ==
    \A h0 \in SliceKeys, e \in Extensions :
        LET h == SliceKeyOf(State, h0)
            r == extend_map(State, h0, e)
        IN  (h \in DOMAIN maps /\ e >= 0)
              => IF Side(State, h) + 2 * e > MAX_MAP_SIZE
                 THEN /\ r.exc = "none"
                      /\ r.ret = 0 - 1
                      /\ r.st.maps[h] = maps[h]
                 ELSE (r.exc = "none")
                        => /\ r.ret = Side(State, h) + 2 * e
                           /\ e > 0
                           /\ \A m \in ArrayNames :
                                 PaddedBy(r.st.maps[h][m], maps[h][m], m, e)
                           /\ \A k \in DOMAIN maps \ {h} :
                                 r.st.maps[k] = maps[k]

\* extend_map(0, 1) has made slice 0, side 1027 with the cell (513, 513)
\* occupied, a slice of side 1029 with the cell (514, 514) occupied.
C26_Witness ==
    /\ outcome.op = "extend_map"
    /\ outcome.ret = MAP_INIT_SIZE + 4
    /\ Side(State, 0) = MAP_INIT_SIZE + 4
    /\ DOMAIN maps[0]["map"].cells = { << 514, 514 >> }
    /\ Occupancy(State, 514, 514, 0) = 1
    /\ LastUpdate(State, 514, 514, 0) = 0
    /\ LastUpdate(State, 513, 513, 0) = 0 - 1

\* C27: update_map leaves slice 0, the slice y2slice selects, the only one:
\* no call of it creates or grows a slice under another key.
C27_OnlySliceZero ==
    [][ outcome'.op = "update_map"
          => /\ DOMAIN maps' = DOMAIN maps
             /\ \A h \in DOMAIN maps \ {y2slice(0)} : maps'[h] = maps[h] ]_vars

\* C28: map_size, which the bounds check of update_map uses, is the side of
\* slice 0, which real2map uses.
C28_MapSizeIsSide == map_size = Side(State, y2slice(0))

\* The cells some array of some slice stores a value for.
StoredCells(st) ==
    UNION { { << q[1], q[2], h >> : q \in DOMAIN st.maps[h][m].cells }
            : h \in DOMAIN st.maps, m \in ArrayNames }

\* C29: a delete by identity X, and the clearing step of a move of X, leave
\* every cell owned by another identity with its occupancy, owner and last
\* update.
C29_DeleteTouchesOnlyOwnCells ==
    \A X \in {"a", "b"}, is_move \in BOOLEAN :
        LET r == delete_loc_by_memid(State, X, now, is_move)
        IN  \A c \in StoredCells(State) :
                OwnerAt(State, c[1], c[2], c[3]) \notin {X, "NULL"}
                  => /\ Occupancy(r.st, c[1], c[2], c[3])
                          = Occupancy(State, c[1], c[2], c[3])
                     /\ OwnerAt(r.st, c[1], c[2], c[3])
                          = OwnerAt(State, c[1], c[2], c[3])
                     /\ LastUpdate(r.st, c[1], c[2], c[3])
                          = LastUpdate(State, c[1], c[2], c[3])

\* C30: a move record refused because its identity owns more than one cell
\* leaves the maps and memid2locs as they were before the record.
C30_RefusedMoveChangesNothing ==
    \A c \in MoveChecks :
        LET r == ApplyRecord(State, c, now)
        IN  (r.exc = "Exception" /\ Cardinality(OwnedCells(State, c.memid)) > 1)
              => /\ r.st.maps = maps
                 /\ r.st.memid2locs = memid2locs

\* Every key of memid2locs[X] decodes to a cell of an existing slice whose
\* owner is X.
KeysAgree(st) ==
    \A X \in DOMAIN st.memid2locs \ {"NULL"} :
        \A n \in 1..Len(st.memid2locs[X]) :
            LET c == idx2ijh(st.memid2locs[X][n])
            IN  /\ c[3] \in DOMAIN st.maps
                /\ c[1] < Side(st, c[3])
                /\ c[2] < Side(st, c[3])
                /\ OwnerAt(st, c[1], c[2], c[3]) = X

\* The content of the cell the world position pos maps to.
ContentAt(st, pos) ==
    LET ij == CellOf(st, pos)
        h  == y2slice(pos[2])
    IN  << Occupancy(st, ij[1], ij[2], h), OwnerAt(st, ij[1], ij[2], h),
           LastUpdate(st, ij[1], ij[2], h) >>

\* C31: extend_map on a slice that holds owned cells keeps owner and
\* memid2locs in agreement (every key of memid2locs[X] still decodes to a
\* cell of the grown slice owned by X), and a world position maps through
\* real2map to a cell with the content it had before.
C31_GrowthKeepsIndex ==
    \A h0 \in SliceKeys, e \in Extensions :
        LET r == extend_map(State, h0, e)
        IN  ( /\ KeysAgree(State)
              /\ SliceKeyOf(State, h0) \in DOMAIN maps
              /\ r.exc = "none"
              /\ r.ret > 0 )
            => /\ KeysAgree(r.st)
               /\ \A pos \in {P1, P2} : ContentAt(r.st, pos) = ContentAt(State, pos)

=============================================================================
